---- MODULE Spec2Model ----
(***************************************************************************)
(* Generic-to-personalized kinematic model pipeline of                     *)
(* binding/python3/model_creation.py: frame construction from markers,     *)
(* rigid transforms (RT), generic entity binding against a trial and the   *)
(* assembly and serialization of the kinematic chain.                      *)
(*                                                                         *)
(* Numbers.  Coordinates are integers.  NaN is one reserved value that     *)
(* every arithmetic operator propagates, as IEEE arithmetic does.  A unit  *)
(* vector v / |v| is held as the primitive integer vector of its           *)
(* direction (v divided by the gcd of its components): two vectors have    *)
(* the same normalization exactly when they have the same primitive        *)
(* vector, and for an axis-aligned v the primitive vector IS v / |v|.      *)
(***************************************************************************)
EXTENDS Integers, Sequences, FiniteSets, TLC

VARIABLES
    frameArgs,      \* SpecFrame: the arguments of one RT.from_markers call
    frameResult,    \* SpecFrame: what the call returned or raised
    arrays,         \* SpecRT: the ndarrays alive, by identity (1 is the default argument)
    rts,            \* SpecRT: the RT objects alive, by identity
    last,           \* SpecRT: the last call made and what it returned
    segments,       \* Spec: KinematicModelGeneric.segments, in insertion order
    trial,          \* Spec: the c3d handed to generate_personalized
    file,           \* Spec: the file at save_path
    outcome,        \* Spec: the last call on the model and what it returned or raised
    model,          \* Spec: the KinematicChain the last generate_personalized built
    calls,          \* Spec: the number of add_segment, set_rt and add_marker calls made
    generated,      \* Spec: the number of generate_personalized calls made
    callArgs,       \* SpecMarker, SpecDeLeva: the arguments of one call
    callResult      \* SpecMarker, SpecDeLeva: what the call returned or raised

frameVars == <<frameArgs, frameResult>>

rtVars == <<arrays, rts, last>>

modelVars == <<segments, trial, file, outcome, model, calls, generated>>

callVars == <<callArgs, callResult>>

vars == <<frameArgs, frameResult, arrays, rts, last,
          segments, trial, file, outcome, model, calls, generated,
          callArgs, callResult>>

----------------------------------------------------------------------------
(* Floating point scalars: integers plus NaN *)

NaN == 1000000

IsNaN(x) == x = NaN

FAdd(a, b) == IF IsNaN(a) \/ IsNaN(b) THEN NaN ELSE a + b

FSub(a, b) == IF IsNaN(a) \/ IsNaN(b) THEN NaN ELSE a - b

FMul(a, b) == IF IsNaN(a) \/ IsNaN(b) THEN NaN ELSE a * b

FNeg(a) == IF IsNaN(a) THEN NaN ELSE 0 - a

Abs(x) == IF x < 0 THEN 0 - x ELSE x

RECURSIVE Gcd(_, _)
Gcd(a, b) == IF b = 0 THEN a ELSE Gcd(b, a % b)

----------------------------------------------------------------------------
(* 3-vectors *)

NaN3 == <<NaN, NaN, NaN>>

VecHasNaN(v) == \E i \in 1..Len(v) : IsNaN(v[i])

VSub(a, b) == <<FSub(a[1], b[1]), FSub(a[2], b[2]), FSub(a[3], b[3])>>

Dot(a, b) == FAdd(FAdd(FMul(a[1], b[1]), FMul(a[2], b[2])), FMul(a[3], b[3]))

\* np.cross
Cross(a, b) ==
    << FSub(FMul(a[2], b[3]), FMul(a[3], b[2])),
       FSub(FMul(a[3], b[1]), FMul(a[1], b[3])),
       FSub(FMul(a[1], b[2]), FMul(a[2], b[1])) >>

\* vector / np.linalg.norm(vector): numpy divides 0 by 0 to NaN (a warning, no
\* exception); otherwise the unit vector, held as its primitive integer vector.
Normalize(v) ==
    IF VecHasNaN(v) \/ Dot(v, v) = 0
    THEN NaN3
    ELSE LET g == Gcd(Gcd(Abs(v[1]), Abs(v[2])), Abs(v[3]))
         IN  <<v[1] \div g, v[2] \div g, v[3] \div g>>

----------------------------------------------------------------------------
(* Concrete entities *)

None == <<>>

Some(x) == <<x>>

\* Marker.__init__
Marker(name, parent_name, position, is_technical, is_anatomical) ==
    [name |-> name, parent_name |-> parent_name, position |-> position,
     is_technical |-> is_technical, is_anatomical |-> is_anatomical]

AxisNames == {"X", "Y", "Z"}

\* Axis.Name: X = 0, Y = 1, Z = 2
AxisValue(name) == CASE name = "X" -> 0 [] name = "Y" -> 1 [] name = "Z" -> 2

\* Axis.__init__
Axis(name, start, end) == [name |-> name, start_point |-> start, end_point |-> end]

\* Axis.axis
AxisVector(a) == VSub(a.end_point.position, a.start_point.position)

Identity4 == <<<<1, 0, 0, 0>>, <<0, 1, 0, 0>>, <<0, 0, 1, 0>>, <<0, 0, 0, 1>>>>

\* RT.__init__
RT(rt, parent_rt, is_rt_local) ==
    [rt |-> rt, parent_rt |-> parent_rt, is_rt_local |-> is_rt_local]

\* An exception leaving a call, or its return value
Raise(kind, msg) == [ok |-> FALSE, error |-> kind, msg |-> msg, value |-> None]

Return(v) == [ok |-> TRUE, error |-> "", msg |-> "", value |-> v]

----------------------------------------------------------------------------
(* RT.from_markers *)

\* third_axis_name of the X / Y / Z branches
ThirdAxisName(first_name, second_name) ==
    CASE first_name = "X" -> (IF second_name = "Z" THEN "Y" ELSE "Z")
      [] first_name = "Y" -> (IF second_name = "X" THEN "Z" ELSE "X")
      [] first_name = "Z" -> (IF second_name = "Y" THEN "X" ELSE "Y")

\* mutant of SwapAxes: the axes are used in the order given
SwapAxesNever(first_name, second_name) == FALSE

\* whether a branch exchanges first_axis and second_axis
SwapAxes(first_name, second_name) ==
    CASE first_name = "X" -> second_name = "Z"
      [] first_name = "Y" -> second_name = "X"
      [] first_name = "Z" -> second_name = "Y"

\* mutant of AxisVectors: the axis to keep is the one recomputed
AxisVectorsRecomputeKept(first_axis, second_axis, axis_name_to_keep) ==
    LET first_axis_vector == AxisVector(first_axis)
        second_axis_vector == AxisVector(second_axis)
        third_axis_vector == Cross(first_axis_vector, second_axis_vector)
    IN  IF axis_name_to_keep = second_axis.name
        THEN Return(<<first_axis_vector,
                      Cross(third_axis_vector, first_axis_vector),
                      third_axis_vector>>)
        ELSE IF axis_name_to_keep = first_axis.name
        THEN Return(<<Cross(second_axis_vector, third_axis_vector),
                      second_axis_vector,
                      third_axis_vector>>)
        ELSE Raise("ValueError", "Name of axis to keep should be one of the two axes")

\* mutant of AxisVectors: an axis_to_keep naming neither axis keeps the second
AxisVectorsNoKeepCheck(first_axis, second_axis, axis_name_to_keep) ==
    LET first_axis_vector == AxisVector(first_axis)
        second_axis_vector == AxisVector(second_axis)
        third_axis_vector == Cross(first_axis_vector, second_axis_vector)
    IN  IF axis_name_to_keep = first_axis.name
        THEN Return(<<first_axis_vector,
                      Cross(third_axis_vector, first_axis_vector),
                      third_axis_vector>>)
        ELSE Return(<<Cross(second_axis_vector, third_axis_vector),
                      second_axis_vector,
                      third_axis_vector>>)

\* "Compute the third axis and recompute one of the previous two": the three
\* axis vectors as they stand before they are normalized, by axis name
AxisVectors(first_axis, second_axis, axis_name_to_keep) ==
    LET first_axis_vector == AxisVector(first_axis)
        second_axis_vector == AxisVector(second_axis)
        third_axis_vector == Cross(first_axis_vector, second_axis_vector)
    IN  IF axis_name_to_keep = first_axis.name
        THEN Return(<<first_axis_vector,
                      Cross(third_axis_vector, first_axis_vector),
                      third_axis_vector>>)
        ELSE IF axis_name_to_keep = second_axis.name
        THEN Return(<<Cross(second_axis_vector, third_axis_vector),
                      second_axis_vector,
                      third_axis_vector>>)
        ELSE Raise("ValueError", "Name of axis to keep should be one of the two axes")

\* "Dispatch the result into a matrix"
DispatchMatrix(names, vectors, position) ==
    LET col(j) == IF j = AxisValue(names[1]) + 1 THEN Normalize(vectors[1])
                  ELSE IF j = AxisValue(names[2]) + 1 THEN Normalize(vectors[2])
                  ELSE IF j = AxisValue(names[3]) + 1 THEN Normalize(vectors[3])
                  ELSE position
    IN  [i \in 1..4 |-> [j \in 1..4 |->
            IF i = 4 THEN (IF j = 4 THEN 1 ELSE 0) ELSE col(j)[i]]]

FromMarkers(origin, axes, parent_rt) ==
    IF axes[1].name = axes[2].name
    THEN Raise("ValueError", "The two axes cannot be the same axis")
    ELSE IF axes[1].name \notin AxisNames
    THEN Raise("ValueError", "first_axis should be an X, Y or Z axis")
    ELSE LET swap == SwapAxes(axes[1].name, axes[2].name)
             first_axis == IF swap THEN axes[2] ELSE axes[1]
             second_axis == IF swap THEN axes[1] ELSE axes[2]
             third_axis_name == ThirdAxisName(axes[1].name, axes[2].name)
             vectors == AxisVectors(first_axis, second_axis, axes[3])
         IN  IF ~vectors.ok
             THEN vectors
             ELSE Return(RT(DispatchMatrix(
                                <<first_axis.name, second_axis.name, third_axis_name>>,
                                vectors.value, origin.position),
                            parent_rt, FALSE))

----------------------------------------------------------------------------
(* 4x4 matrices *)

RECURSIVE FSum(_)
FSum(xs) == IF xs = <<>> THEN 0 ELSE FAdd(xs[1], FSum(Tail(xs)))

\* a @ b for two 4x4 arrays
MatMul(a, b) ==
    [i \in 1..4 |-> [j \in 1..4 |-> FSum([k \in 1..4 |-> FMul(a[i][k], b[k][j])])]]

\* a @ v for a 4x4 array and a 4-vector
MatVec(a, v) == [i \in 1..4 |-> FSum([k \in 1..4 |-> FMul(a[i][k], v[k])])]

MatHasNaN(m) == \E i \in 1..4, j \in 1..4 : IsNaN(m[i][j])

----------------------------------------------------------------------------
(* ndarrays with identity: arrays is the sequence of the arrays alive, an   *)
(* ndarray reference is the array it reads and writes (base) and whether it *)
(* is the transposed view of it (ndarray.T shares the data of its base).    *)

ArrayRef(base) == [base |-> base, T |-> FALSE]

\* the default argument np.identity(4) of RT.__init__, made once
DefaultArray == 1

ViewGet(arrs, ref, i, j) == IF ref.T THEN arrs[ref.base][j][i] ELSE arrs[ref.base][i][j]

ViewMatrix(arrs, ref) == [i \in 1..4 |-> [j \in 1..4 |-> ViewGet(arrs, ref, i, j)]]

\* ref[i, j] = cells[<<i, j>>] for the positions of cells: written through to the base
ViewSet(arrs, ref, cells) ==
    [arrs EXCEPT ![ref.base] =
        [r \in 1..4 |-> [c \in 1..4 |->
            LET pos == IF ref.T THEN <<c, r>> ELSE <<r, c>>
            IN  IF pos \in DOMAIN cells THEN cells[pos] ELSE arrs[ref.base][r][c]]]]

\* ndarray.T
TransposedView(ref) == [ref EXCEPT !.T = ~ref.T]

\* mutant of RTCopy: the copy shares the receiver's array
RTCopyShared(arrs, self) ==
    [arrays |-> arrs, out |-> RT(self.rt, self.parent_rt, FALSE)]

\* RT.copy: copy(self.rt) is a new array; is_rt_local is not passed on
RTCopy(arrs, self) ==
    [arrays |-> Append(arrs, ViewMatrix(arrs, self.rt)),
     out |-> RT(ArrayRef(Len(arrs) + 1), self.parent_rt, FALSE)]

\* mutant of RTTranspose: the translation is not recomputed, only moved
RTTransposeKeepTranslation(arrs, self) ==
    LET c == RTCopy(arrs, self)
        view == TransposedView(c.out.rt)
        m == ViewMatrix(c.arrays, view)
        a1 == ViewSet(c.arrays, view, [p \in {<<i, 4>> : i \in 1..3} |-> m[4][p[1]]])
        a2 == ViewSet(a1, view, [p \in {<<4, j>> : j \in 1..3} |-> 0])
    IN  [arrays |-> a2, out |-> [c.out EXCEPT !.rt = view]]

\* RT.transpose
RTTranspose(arrs, self) ==
    LET c == RTCopy(arrs, self)
        \* out.rt = out.rt.T
        view == TransposedView(c.out.rt)
        m == ViewMatrix(c.arrays, view)
        \* out.rt[:3, 3] = -out.rt[:3, :3] @ out.rt[3, :3]
        t == [i \in 1..3 |-> FSum([j \in 1..3 |-> FMul(FNeg(m[i][j]), m[4][j])])]
        a1 == ViewSet(c.arrays, view, [p \in {<<i, 4>> : i \in 1..3} |-> t[p[1]]])
        \* out.rt[3, :3] = 0
        a2 == ViewSet(a1, view, [p \in {<<4, j>> : j \in 1..3} |-> 0])
    IN  [arrays |-> a2, out |-> [c.out EXCEPT !.rt = view]]

\* RT.__str__, the local rt that is decomposed into angles and translation:
\* "a @ b if p else c" parses as "(a @ b) if p else c"
RTStrMatrix(arrs, objs, self) ==
    IF self.is_rt_local
    THEN [arrays |-> arrs, rt |-> ViewMatrix(arrs, self.rt)]
    ELSE IF self.parent_rt # None
    THEN LET t == RTTranspose(arrs, objs[self.parent_rt[1]])
         IN  [arrays |-> t.arrays,
              rt |-> MatMul(ViewMatrix(t.arrays, t.out.rt), ViewMatrix(t.arrays, self.rt))]
    ELSE [arrays |-> arrs, rt |-> Identity4]

\* RT.__str__, the values formatted: the arguments of arctan2, arcsin and
\* arctan2 for rx, ry, rz, then tx, ty, tz
RTStrFields(rt) ==
    << FNeg(rt[2][3]), rt[3][3], rt[1][3], FNeg(rt[1][2]), rt[1][1],
       rt[1][4], rt[2][4], rt[3][4] >>

\* mutant of ToParentFrame: the frame itself is applied, not its transpose
ToParentFrameForward(arrs, parent_rt, position) ==
    IF parent_rt # None
    THEN [arrays |-> arrs, position |-> MatVec(ViewMatrix(arrs, parent_rt[1].rt), position)]
    ELSE [arrays |-> arrs, position |-> MatVec(Identity4, position)]

\* Marker.from_data, line 89: the position in the frame of parent_rt
\* (parent_rt is an RT object of objs, or None)
ToParentFrame(arrs, parent_rt, position) ==
    IF parent_rt # None
    THEN LET t == RTTranspose(arrs, parent_rt[1])
         IN  [arrays |-> t.arrays, position |-> MatVec(ViewMatrix(t.arrays, t.out.rt), position)]
    ELSE [arrays |-> arrs, position |-> MatVec(Identity4, position)]

\* the arrays that outlive a call that began with n arrays and returned no
\* array: its temporaries are dropped
Outlive(arrs, n) == SubSeq(arrs, 1, n)

----------------------------------------------------------------------------
(* RT.from_euler_and_translation, for angles that are quarter turns        *)
(* (0, 1, 2, 3 times pi / 2), where cos and sin are 0, 1 or -1             *)

Cos4(k) == <<1, 0, -1, 0>>[(k % 4) + 1]

Sin4(k) == <<0, 1, 0, -1>>[(k % 4) + 1]

\* the lambdas of matrix
AxisRotation(axis, k) ==
    CASE axis = "x" -> <<<<1, 0, 0>>, <<0, Cos4(k), 0 - Sin4(k)>>, <<0, Sin4(k), Cos4(k)>>>>
      [] axis = "y" -> <<<<Cos4(k), 0, Sin4(k)>>, <<0, 1, 0>>, <<0 - Sin4(k), 0, Cos4(k)>>>>
      [] axis = "z" -> <<<<Cos4(k), 0 - Sin4(k), 0>>, <<Sin4(k), Cos4(k), 0>>, <<0, 0, 1>>>>

Mat3Mul(a, b) ==
    [i \in 1..3 |-> [j \in 1..3 |-> FSum([k \in 1..3 |-> FMul(a[i][k], b[k][j])])]]

Identity3 == <<<<1, 0, 0>>, <<0, 1, 0>>, <<0, 0, 1>>>>

\* the loop over zip(angles, angle_sequence), n pairs of it
RECURSIVE EulerRotation(_, _, _)
EulerRotation(angles, angle_sequence, n) ==
    IF n = 0
    THEN Identity3
    ELSE Mat3Mul(EulerRotation(angles, angle_sequence, n - 1),
                 AxisRotation(angle_sequence[n], angles[n]))

Min(a, b) == IF a < b THEN a ELSE b

FromEulerAndTranslation(angles, angle_sequence, translations, parent_rt) ==
    LET r == EulerRotation(angles, angle_sequence, Min(Len(angles), Len(angle_sequence)))
        rt == [i \in 1..4 |-> [j \in 1..4 |->
                  IF i = 4 THEN (IF j = 4 THEN 1 ELSE 0)
                  ELSE IF j = 4 THEN translations[i] ELSE r[i][j]]]
    IN  RT(rt, parent_rt, TRUE)

----------------------------------------------------------------------------
(* RT values: where no array is shared, an RT is the value of its matrix,   *)
(* its parent RT and its flag.  The calls on it are the calls above, made   *)
(* on the arrays and objects the value stands for.                          *)

\* the objects of an RT value and its ancestors, each with an array of its
\* own; the RT itself is the last object
RECURSIVE LoadRT(_)
LoadRT(v) ==
    IF v.parent_rt = None
    THEN [arrays |-> <<Identity4, v.rt>>,
          objs |-> <<RT(ArrayRef(2), None, v.is_rt_local)>>]
    ELSE LET p == LoadRT(v.parent_rt[1])
         IN  [arrays |-> Append(p.arrays, v.rt),
              objs |-> Append(p.objs, RT(ArrayRef(Len(p.arrays) + 1),
                                         Some(Len(p.objs)), v.is_rt_local))]

\* str(rt) of an RT value
RTStr(v) ==
    LET h == LoadRT(v)
    IN  RTStrFields(RTStrMatrix(h.arrays, h.objs, h.objs[Len(h.objs)]).rt)

\* Marker.from_data, line 89, for an RT value (or None) as parent_rt
PositionInParent(parent_rt, position) ==
    IF parent_rt = None
    THEN ToParentFrame(<<Identity4>>, None, position).position
    ELSE LET h == LoadRT(parent_rt[1])
         IN  ToParentFrame(h.arrays, Some(h.objs[Len(h.objs)]), position).position

----------------------------------------------------------------------------
(* Marker.from_data: the mean position of a marker set in a trial           *)

\* a / n for a count n; the trials of the model keep every quotient exact
FDiv(a, n) == IF IsNaN(a) THEN NaN ELSE a \div n

\* list.index: the first position of x in xs, 0 when x is not in xs
IndexOf(xs, x) ==
    IF \E i \in 1..Len(xs) : xs[i] = x
    THEN CHOOSE i \in 1..Len(xs) : xs[i] = x /\ \A k \in 1..(i - 1) : xs[k] # x
    ELSE 0

\* the elements of xs that are not NaN, in order
RECURSIVE DropNaN(_)
DropNaN(xs) ==
    IF xs = <<>> THEN <<>>
    ELSE IF IsNaN(xs[1]) THEN DropNaN(Tail(xs))
    ELSE <<xs[1]>> \o DropNaN(Tail(xs))

\* mutant of NanMean: np.mean, which a single unseen frame turns into NaN
NanMeanOfAllFrames(xs) == FDiv(FSum(xs), Len(xs))

\* np.nanmean of one row of one marker over the frames: NaN when all are NaN
NanMean(xs) ==
    LET kept == DropNaN(xs)
    IN  IF kept = <<>> THEN NaN ELSE FDiv(FSum(kept), Len(kept))

\* mutant of Mean: the names never seen are left out of the mean
MeanOfSeen(xs) == NanMean(xs)

\* np.mean
Mean(xs) == FDiv(FSum(xs), Len(xs))

\* mutant of ToMeter: the units of the trial are not looked at
ToMeterAsRecorded(c3d, data) == <<data[1], data[2], data[3], 1>>

\* to_meter: data /= factor; data[3] = 1
ToMeter(c3d, data) ==
    LET units == c3d.units
        factor == IF Len(units) > 0 /\ units[1] = "mm" THEN 1000 ELSE 1
    IN  <<FDiv(data[1], factor), FDiv(data[2], factor), FDiv(data[3], factor), 1>>

\* from_markers is a str or a tuple of str
Str(s) == [str |-> s]

Tuple(t) == [tuple |-> t]

\* if isinstance(from_markers, str): from_markers = (from_markers,)
AsTuple(from_markers) ==
    IF "str" \in DOMAIN from_markers THEN <<from_markers.str>> ELSE from_markers.tuple

\* Marker.from_data
MarkerFromData(c3d, name, from_markers, parent_name, parent_rt, is_technical, is_anatomical) ==
    LET names == AsTuple(from_markers)
        index == [k \in 1..Len(names) |-> IndexOf(c3d.labels, names[k])]
    IN  IF \E k \in 1..Len(names) : index[k] = 0
        THEN Raise("ValueError", "marker is not in list")
        ELSE LET \* np.nanmean(points[:, index, :], axis=2): row r of marker k
                 per_marker(r) ==
                     [k \in 1..Len(names) |->
                         NanMean([f \in 1..Len(c3d.points[index[k]]) |->
                                     c3d.points[index[k]][f][r]])]
                 mean == [r \in 1..4 |-> Mean(per_marker(r))]
                 position == ToMeter(c3d, mean)
             IN  IF VecHasNaN(position)
                 THEN Raise("RuntimeError", "The markers are not present in the c3d")
                 ELSE LET local == PositionInParent(parent_rt, position)
                      IN  Return(Marker(name, parent_name,
                                        <<local[1], local[2], local[3]>>,
                                        is_technical, is_anatomical))

----------------------------------------------------------------------------
(* Generic entities and their collapse against a trial *)

\* MarkerGeneric.__init__
MarkerGeneric(name, from_markers, parent_name, is_technical, is_anatomical) ==
    [name |-> name, from_markers |-> from_markers, parent_name |-> parent_name,
     is_technical |-> is_technical, is_anatomical |-> is_anatomical]

\* MarkerGeneric.to_marker
ToMarker(self, c3d, parent_rt) ==
    MarkerFromData(c3d, self.name, self.from_markers, self.parent_name, parent_rt,
                   self.is_technical, self.is_anatomical)

\* AxisGeneric.__init__
AxisGeneric(name, start, end) == [name |-> name, start_point |-> start, end_point |-> end]

\* return Axis(self.name, start, end), or the exception start or end raised
AxisOf(name, start, end) ==
    IF ~start.ok THEN start
    ELSE IF ~end.ok THEN end
    ELSE Return(Axis(name, start.value, end.value))

\* AxisGeneric.to_axis
ToAxis(self, c3d, parent_rt) ==
    AxisOf(self.name, ToMarker(self.start_point, c3d, parent_rt),
           ToMarker(self.end_point, c3d, parent_rt))

\* RTGeneric.__init__
RTGeneric(origin, axes) == [origin |-> origin, axes |-> axes]

\* return RT.from_markers(origin, axes, parent_rt), or the exception origin or
\* an axis raised
RTOf(origin, first, second, axis_to_keep, parent_rt) ==
    IF ~origin.ok THEN origin
    ELSE IF ~first.ok THEN first
    ELSE IF ~second.ok THEN second
    ELSE FromMarkers(origin.value, <<first.value, second.value, axis_to_keep>>, parent_rt)

\* RTGeneric.to_rt
ToRT(self, c3d, parent_rt) ==
    RTOf(ToMarker(self.origin, c3d, None), ToAxis(self.axes[1], c3d, None),
         ToAxis(self.axes[2], c3d, None), self.axes[3], parent_rt)

\* SegmentGeneric.__init__
SegmentGeneric(name, parent_name, translations, rotations) ==
    [name |-> name, parent_name |-> parent_name, translations |-> translations,
     rotations |-> rotations, markers |-> <<>>, rt |-> None]

\* SegmentGeneric.set_rt
SegmentGenericSetRt(self, origin_from_markers, first_axis_name, first_axis_markers, second_axis_name, second_axis_markers, axis_to_keep) ==
    LET mk(from_markers) == MarkerGeneric("", from_markers, "", TRUE, FALSE)
        first_axis_tp == AxisGeneric(first_axis_name, mk(first_axis_markers[1]),
                                     mk(first_axis_markers[2]))
        second_axis_tp == AxisGeneric(second_axis_name, mk(second_axis_markers[1]),
                                      mk(second_axis_markers[2]))
    IN  [self EXCEPT !.rt = Some(RTGeneric(mk(origin_from_markers),
                                           <<first_axis_tp, second_axis_tp, axis_to_keep>>))]

\* SegmentGeneric.add_marker
SegmentGenericAddMarker(self, marker) == [self EXCEPT !.markers = Append(@, marker)]

----------------------------------------------------------------------------
(* Concrete segments, the kinematic chain and its text *)

\* Segment.__init__ as generate_personalized calls it: mass, center of mass,
\* inertia and mesh take their defaults
Segment(name, parent_name, rt, translations, rotations) ==
    [name |-> name, parent_name |-> parent_name, translations |-> translations,
     rotations |-> rotations, markers |-> <<>>, rt |-> rt, mass |-> 0,
     center_of_mass |-> <<0, 0, 0>>, inertia_xxyyzz |-> <<0, 0, 0>>, mesh |-> None]

\* mutant of SegmentAddMarker: the marker is put in front of the others
SegmentAddMarkerFront(self, marker) == [self EXCEPT !.markers = <<marker>> \o @]

\* Segment.add_marker
SegmentAddMarker(self, marker) == [self EXCEPT !.markers = Append(@, marker)]

\* one line of the file: a keyword, a name and the numbers formatted after it
\* (the numbers of the model are integers or NaN, which 0.4f prints in full)
Line(kw, name, numbers) == [kw |-> kw, name |-> name, numbers |-> numbers]

Blank == Line("", "", <<>>)

Bit(b) == IF b THEN 1 ELSE 0

\* Marker.__str__
MarkerStr(self) ==
    << Line("marker", self.name, <<>>),
       Line("parent", self.parent_name, <<>>),
       Line("position", "", self.position),
       Line("technical", "", <<Bit(self.is_technical)>>),
       Line("anatomical", "", <<Bit(self.is_anatomical)>>),
       Line("endmarker", "", <<>>) >>

RECURSIVE Concat(_)
Concat(seqs) == IF seqs = <<>> THEN <<>> ELSE seqs[1] \o Concat(Tail(seqs))

\* Segment.__str__
SegmentStr(self) ==
    <<Line("segment", self.name, <<>>)>>
    \o (IF self.parent_name # "" THEN <<Line("parent", self.parent_name, <<>>)>> ELSE <<>>)
    \o (IF self.rt # None THEN <<Line("RT", "xyz", RTStr(self.rt[1]))>> ELSE <<>>)
    \o (IF self.translations # ""
        THEN <<Line("translations", self.translations, <<>>)>> ELSE <<>>)
    \o (IF self.rotations # "" THEN <<Line("rotations", self.rotations, <<>>)>> ELSE <<>>)
    \o <<Line("mass", "", <<self.mass>>)>>
    \o <<Line("com", "", self.center_of_mass)>>
    \o << Line("inertia", "", <<self.inertia_xxyyzz[1], 0, 0>>),
          Line("", "", <<0, self.inertia_xxyyzz[2], 0>>),
          Line("", "", <<0, 0, self.inertia_xxyyzz[3]>>) >>
    \o (IF self.mesh # None
        THEN [k \in 1..Len(self.mesh[1]) |-> Line("mesh", "", self.mesh[1][k])] ELSE <<>>)
    \o <<Line("endsegment", "", <<>>)>>
    \o Concat([k \in 1..Len(self.markers) |-> MarkerStr(self.markers[k])])

\* KinematicChain.__str__
KinematicChainStr(segs) ==
    <<Line("version", "4", <<>>), Blank>>
    \o Concat([k \in 1..Len(segs) |-> SegmentStr(segs[k]) \o <<Blank, Blank, Blank>>])

\* the file at save_path: how often it was opened for writing and what it holds
NoFile == [opened |-> 0, written |-> 0, text |-> <<>>]

\* open(file_path, "w")
OpenW(f) == [f EXCEPT !.opened = @ + 1, !.text = <<>>]

\* KinematicChain.write
KinematicChainWrite(segs, f) ==
    LET o == OpenW(f)
    IN  [o EXCEPT !.written = @ + 1, !.text = KinematicChainStr(segs)]

----------------------------------------------------------------------------
(* KinematicModelGeneric *)

\* mutant of DictSet: a key the dict has is removed and added again at the end
DictSetAtEnd(d, name, value) ==
    Append(SelectSeq(d, LAMBDA s : s.name # name), value)

\* self.segments[name] = value: a dict keeps the place of a key it has
DictSet(d, name, value) ==
    IF IndexOf([k \in 1..Len(d) |-> d[k].name], name) # 0
    THEN [d EXCEPT ![IndexOf([k \in 1..Len(d) |-> d[k].name], name)] = value]
    ELSE Append(d, value)

\* the place of key name in the dict, 0 for a KeyError
DictIndex(d, name) == IndexOf([k \in 1..Len(d) |-> d[k].name], name)

\* segments[-1].add_marker(m), or the exception m stands for
AddBound(segment, m) == IF ~m.ok THEN m ELSE Return(SegmentAddMarker(segment.value, m.value))

\* the marker loop of generate_personalized, from marker k on: the segment
\* with every marker bound, or the first exception
RECURSIVE BindMarkers(_, _, _, _, _)
BindMarkers(c3d, markers, k, rt, segment) ==
    IF k > Len(markers) \/ ~segment.ok
    THEN segment
    ELSE BindMarkers(c3d, markers, k + 1, rt,
                     AddBound(segment, ToMarker(markers[k], c3d, Some(rt))))

\* lines 826 to 837: the Segment of s with frame rt and its markers, or the
\* exception rt stands for
Collapsed(c3d, s, rt) ==
    IF ~rt.ok THEN rt
    ELSE BindMarkers(c3d, s.markers, 1, rt.value,
                     Return(Segment(s.name, s.parent_name, Some(rt.value),
                                    s.translations, s.rotations)))

\* line 821: list.index of the parent among the segments made, 0 for a
\* ValueError; None is -1
ParentIndex(chain, s) ==
    IF s.parent_name # ""
    THEN IndexOf([k \in 1..Len(chain) |-> chain[k].name], s.parent_name)
    ELSE 0 - 1

\* lines 822 to 825
SegmentRT(c3d, chain, s, parent_index) ==
    IF s.rt = None
    THEN Return(RT(Identity4, None, FALSE))
    ELSE ToRT(s.rt[1], c3d, IF parent_index > 0 THEN chain[parent_index].rt ELSE None)

\* mutant of CollapseSegment: a parent that is not found is taken as no parent
CollapseSegmentLenient(c3d, chain, s) ==
    Collapsed(c3d, s, SegmentRT(c3d, chain, s, ParentIndex(chain, s)))

\* the body of the segment loop of generate_personalized: the concrete
\* segment of s with its markers, or the first exception
CollapseSegment(c3d, chain, s) ==
    IF ParentIndex(chain, s) = 0
    THEN Raise("ValueError", "parent_name is not in list")
    ELSE Collapsed(c3d, s, SegmentRT(c3d, chain, s, ParentIndex(chain, s)))

\* segments.append(segment), or the exception segment stands for
Appended(chain, segment) ==
    IF ~segment.ok THEN segment ELSE Return(Append(chain.value, segment.value))

\* the segment loop from segment i on: the list segments, or the first exception
RECURSIVE Assemble(_, _, _, _)
Assemble(c3d, generic, i, chain) ==
    IF i > Len(generic) \/ ~chain.ok
    THEN chain
    ELSE Assemble(c3d, generic, i + 1,
                  Appended(chain, CollapseSegment(c3d, chain.value, generic[i])))

\* mutant of Written: the file is opened before the chain is assembled
WrittenOpenFirst(r, f) ==
    IF ~r.ok
    THEN [result |-> r, model |-> None, file |-> OpenW(f)]
    ELSE [result |-> Return(None), model |-> Some(r.value),
          file |-> KinematicChainWrite(r.value, f)]

\* lines 839 and 840, reached when the loop raised nothing: what
\* generate_personalized raises or returns, the KinematicChain it built and
\* the file it leaves
Written(r, f) ==
    IF ~r.ok
    THEN [result |-> r, model |-> None, file |-> f]
    ELSE [result |-> Return(None), model |-> Some(r.value),
          file |-> KinematicChainWrite(r.value, f)]

\* KinematicModelGeneric.generate_personalized
GeneratePersonalized(generic, c3d, f) ==
    Written(Assemble(c3d, generic, 1, Return(<<>>)), f)

\* the marker sets a generic segment names: those of its recipe, then those
\* of its markers
FromMarkersOf(s) ==
    (IF s.rt = None THEN <<>>
     ELSE << s.rt[1].origin.from_markers,
             s.rt[1].axes[1].start_point.from_markers,
             s.rt[1].axes[1].end_point.from_markers,
             s.rt[1].axes[2].start_point.from_markers,
             s.rt[1].axes[2].end_point.from_markers >>)
    \o [k \in 1..Len(s.markers) |-> s.markers[k].from_markers]

\* mutant of FromDataLeaves: to_meter divides the points of the trial in place
FromDataLeavesInMetres(c3d, from_markers) ==
    [c3d EXCEPT !.points =
        [i \in 1..Len(c3d.points) |-> [f \in 1..Len(c3d.points[i]) |->
            ToMeter(c3d, c3d.points[i][f])]]]

\* the trial after Marker.from_data: the array that to_meter divides in place
\* and whose fourth row it sets is the one np.mean made, not one of the trial
FromDataLeaves(c3d, from_markers) == c3d

\* the trial after the Marker.from_data calls on the marker sets
RECURSIVE TrialAfter(_, _)
TrialAfter(c3d, sets) ==
    IF sets = <<>> THEN c3d
    ELSE TrialAfter(FromDataLeaves(c3d, sets[1]), Tail(sets))

\* KinematicModelGeneric.add_segment
ModelAddSegment(segs, name, parent_name, translations, rotations) ==
    [result |-> Return(None),
     segments |-> DictSet(segs, name,
                          SegmentGeneric(name, parent_name, translations, rotations))]

\* KinematicModelGeneric.set_rt: self.segments[segment_name] is a KeyError for
\* a name that was not added
ModelSetRt(segs, segment_name, origin_markers, first_axis_name, first_axis_markers, second_axis_name, second_axis_markers, axis_to_keep) ==
    LET i == DictIndex(segs, segment_name)
    IN  IF i = 0
        THEN [result |-> Raise("KeyError", segment_name), segments |-> segs]
        ELSE [result |-> Return(None),
              segments |-> [segs EXCEPT ![i] =
                  SegmentGenericSetRt(@, origin_markers, first_axis_name,
                                      first_axis_markers, second_axis_name,
                                      second_axis_markers, axis_to_keep)]]

\* mutant of ModelAddMarker: a segment that was not added is added for the
\* marker, as self.segments.setdefault would
ModelAddMarkerDeclaring(segs, segment, name, from_markers, is_technical, is_anatomical) ==
    LET i == DictIndex(segs, segment)
        given == IF from_markers = None THEN Str(name) ELSE from_markers[1]
        marker == MarkerGeneric(name, given, segment, is_technical, is_anatomical)
    IN  IF i = 0
        THEN [result |-> Return(None),
              segments |-> Append(segs, SegmentGenericAddMarker(SegmentGeneric(segment, "", "", ""), marker))]
        ELSE [result |-> Return(None),
              segments |-> [segs EXCEPT ![i] = SegmentGenericAddMarker(@, marker)]]

\* KinematicModelGeneric.add_marker: from_markers is None (no argument) or a
\* str or tuple; the MarkerGeneric is made before the segment is looked up
ModelAddMarker(segs, segment, name, from_markers, is_technical, is_anatomical) ==
    LET i == DictIndex(segs, segment)
        given == IF from_markers = None THEN Str(name) ELSE from_markers[1]
        marker == MarkerGeneric(name, given, segment, is_technical, is_anatomical)
    IN  IF i = 0
        THEN [result |-> Raise("KeyError", segment), segments |-> segs]
        ELSE [result |-> Return(None),
              segments |-> [segs EXCEPT ![i] = SegmentGenericAddMarker(@, marker)]]

\* ---------------------------------------------------------------------------
\* DeLeva: the anthropometric table and the four methods reading it.
\* Fractions of mass and of length are the decimals of the table counted in
\* ten-thousandths, radii of gyration in thousandths.
\* ---------------------------------------------------------------------------

\* 1.0 in the unit of the mass and center-of-mass fractions
Fraction == 10000

\* mutant of BothSides: the entry of one limb only
BothSidesOnce(mass) == mass

\* a limb entry of the table, written "mass * 2" for the two sides
BothSides(mass) == mass * 2

\* DeLeva.Param.__init__
Param(marker_names, mass, center_of_mass, radii) == [marker_names |-> marker_names, mass |-> mass, center_of_mass |-> center_of_mass, radii |-> radii]

\* self.table
DeLevaTable ==
  [ male |->
    [ HEAD      |-> Param(<<"TOP_HEAD", "SHOULDER">>, 694, 5002, <<303, 315, 261>>),
      TRUNK     |-> Param(<<"SHOULDER", "PELVIS">>, 4346, 5138, <<328, 306, 169>>),
      UPPER_ARM |-> Param(<<"SHOULDER", "ELBOW">>, BothSides(271), 5772, <<285, 269, 158>>),
      LOWER_ARM |-> Param(<<"ELBOW", "WRIST">>, BothSides(162), 4574, <<276, 265, 121>>),
      HAND      |-> Param(<<"WRIST", "FINGER">>, BothSides(61), 7900, <<628, 513, 401>>),
      THIGH     |-> Param(<<"PELVIS", "KNEE">>, BothSides(1416), 4095, <<329, 329, 149>>),
      SHANK     |-> Param(<<"KNEE", "ANKLE">>, BothSides(433), 4459, <<255, 249, 103>>),
      FOOT      |-> Param(<<"ANKLE", "TOE">>, BothSides(137), 4415, <<257, 245, 124>>) ],
    female |->
    [ HEAD      |-> Param(<<"TOP_HEAD", "SHOULDER">>, 669, 4841, <<271, 295, 261>>),
      TRUNK     |-> Param(<<"SHOULDER", "PELVIS">>, 4257, 4964, <<307, 292, 147>>),
      UPPER_ARM |-> Param(<<"SHOULDER", "ELBOW">>, BothSides(255), 5754, <<278, 260, 148>>),
      LOWER_ARM |-> Param(<<"ELBOW", "WRIST">>, BothSides(138), 4559, <<261, 257, 94>>),
      HAND      |-> Param(<<"WRIST", "FINGER">>, BothSides(56), 7474, <<531, 454, 335>>),
      THIGH     |-> Param(<<"PELVIS", "KNEE">>, BothSides(1478), 3612, <<369, 364, 162>>),
      SHANK     |-> Param(<<"KNEE", "ANKLE">>, BothSides(481), 4416, <<271, 267, 93>>),
      FOOT      |-> Param(<<"ANKLE", "TOE">>, BothSides(129), 4014, <<299, 279, 124>>) ] ]

\* DeLeva.__init__: marker_names are the names of the markers of the model
DeLeva(sex, mass, biorbd_model) == [sex |-> sex, mass |-> mass, model |-> biorbd_model, marker_names |-> biorbd_model.names, table |-> DeLevaTable]

\* self.table[self.sex][segment], a KeyError for a key the table has not
TableRow(self, segment) ==
    IF self.sex \notin DOMAIN self.table THEN Raise("KeyError", self.sex)
    ELSE IF segment \notin DOMAIN self.table[self.sex] THEN Raise("KeyError", segment)
    ELSE Return(self.table[self.sex][segment])

\* np.linalg.norm of a vector whose norm is a whole number
Norm(v) == CHOOSE r \in 0..Dot(v, v) : r * r = Dot(v, v)

\* the two ends of a table row in the rest pose: list.index raises ValueError
\* for a marker the model has not
Ends(self, row) ==
    IF IndexOf(self.marker_names, row.marker_names[1]) = 0
    THEN Raise("ValueError", row.marker_names[1])
    ELSE IF IndexOf(self.marker_names, row.marker_names[2]) = 0
    THEN Raise("ValueError", row.marker_names[2])
    ELSE Return([proximal |-> self.model.markers[IndexOf(self.marker_names, row.marker_names[1])],
                 distal |-> self.model.markers[IndexOf(self.marker_names, row.marker_names[2])]])

\* DeLeva.segment_mass, in ten-thousandths of the unit of mass
SegmentMass(self, segment) ==
    IF ~TableRow(self, segment).ok THEN TableRow(self, segment)
    ELSE Return(TableRow(self, segment).value.mass * self.mass)

\* DeLeva.segment_length
SegmentLength(self, segment) ==
    IF ~TableRow(self, segment).ok THEN TableRow(self, segment)
    ELSE IF ~Ends(self, TableRow(self, segment).value).ok THEN Ends(self, TableRow(self, segment).value)
    ELSE Return(Norm(VSub(Ends(self, TableRow(self, segment).value).value.distal,
                          Ends(self, TableRow(self, segment).value).value.proximal)))

\* mutant of CenterOfMassOf: the same fraction from either end
CenterOfMassSameFraction(row, ends, inverse_proximal) ==
    IF ~ends.ok THEN ends
    ELSE IF inverse_proximal
    THEN Return([k \in 1..3 |-> row.center_of_mass * (ends.value.proximal[k] - ends.value.distal[k])])
    ELSE Return([k \in 1..3 |-> row.center_of_mass * (ends.value.distal[k] - ends.value.proximal[k])])

\* the offset of the center of mass from the proximal or from the distal end
CenterOfMassOf(row, ends, inverse_proximal) ==
    IF ~ends.ok THEN ends
    ELSE IF inverse_proximal
    THEN Return([k \in 1..3 |-> (Fraction - row.center_of_mass) * (ends.value.proximal[k] - ends.value.distal[k])])
    ELSE Return([k \in 1..3 |-> row.center_of_mass * (ends.value.distal[k] - ends.value.proximal[k])])

\* DeLeva.segment_center_of_mass, in ten-thousandths of the unit of length
SegmentCenterOfMass(self, segment, inverse_proximal) ==
    IF ~TableRow(self, segment).ok THEN TableRow(self, segment)
    ELSE CenterOfMassOf(TableRow(self, segment).value, Ends(self, TableRow(self, segment).value), inverse_proximal)

\* mass * q, a product wider than the integers of the checker, held as
\* hi * Fraction + lo
Wide(mass, q) == [hi |-> mass * (q \div Fraction) + (mass * (q % Fraction)) \div Fraction, lo |-> (mass * (q % Fraction)) % Fraction]

\* mutant of Moment: the radius squared, not the length
MomentOfSquaredRadius(mass, length, radius) == Wide(mass, length * radius * radius)

\* mass * (length * radius) ** 2
Moment(mass, length, radius) == Wide(mass, (length * radius) * (length * radius))

\* DeLeva.segment_moment_of_inertia: segment_mass, then segment_length, then
\* the radii of the table
SegmentMomentOfInertia(self, segment) ==
    IF ~SegmentMass(self, segment).ok THEN SegmentMass(self, segment)
    ELSE IF ~SegmentLength(self, segment).ok THEN SegmentLength(self, segment)
    ELSE Return([i \in 1..3 |-> Moment(SegmentMass(self, segment).value, SegmentLength(self, segment).value, TableRow(self, segment).value.radii[i])])

\* no call made on an RT yet
NoCall == [op |-> "none", self |-> 0, out |-> 0, value |-> None]

Call(op, self, out, value) == [op |-> op, self |-> self, out |-> out, value |-> value]

\* no call made on the model yet
NoOutcome == [op |-> "none", result |-> Return(None)]

\* KinematicModelGeneric(): no segment, no trial, no file and no call
ModelIdle ==
    /\ segments = <<>>
    /\ trial = None
    /\ file = NoFile
    /\ outcome = NoOutcome
    /\ model = None
    /\ calls = 0
    /\ generated = 0

\* no call of Marker.from_data or of a DeLeva method on its own
CallIdle ==
    /\ callArgs = None
    /\ callResult = None

----------------------------------------------------------------------------
(* SpecFrame: RT.from_markers applied to bounded inputs *)

MaxCoord == 1

Coords == (0 - MaxCoord)..MaxCoord

Points == {<<x, y, z>> : x \in Coords, y \in Coords, z \in Coords}

\* where the two axes start (the segment origin marker of a recipe)
FrameStart == <<1, 0, 0>>

FrameMarker(p) == Marker("", "", p, TRUE, FALSE)

FrameAxes(a) ==
    << Axis(a.first_name, FrameMarker(FrameStart), FrameMarker(a.first_end)),
       Axis(a.second_name, FrameMarker(FrameStart), FrameMarker(a.second_end)),
       a.axis_to_keep >>

FrameCall(a) == FromMarkers(FrameMarker(a.origin), FrameAxes(a), None)

FrameInit ==
    /\ frameArgs \in [origin : {FrameStart}, first_name : AxisNames, first_end : Points,
                      second_name : AxisNames, second_end : Points,
                      axis_to_keep : AxisNames]
    /\ frameResult = None
    /\ arrays = <<Identity4>>
    /\ rts = <<>>
    /\ last = NoCall
    /\ ModelIdle
    /\ CallIdle

FrameFromMarkers ==
    /\ frameResult = None
    /\ frameResult' = Some(FrameCall(frameArgs))
    /\ UNCHANGED <<frameArgs, rtVars, modelVars, callVars>>

FrameNext == FrameFromMarkers

SpecFrame == FrameInit /\ [][FrameNext]_vars

----------------------------------------------------------------------------
(* Claims about RT.from_markers, checked under SpecFrame *)

FrameCalled == frameResult # None

FrameRes == frameResult[1]

Zero3 == <<0, 0, 0>>

Column(m, j) == <<m[1][j], m[2][j], m[3][j]>>

AxisColumn(m, name) == Column(m, AxisValue(name) + 1)

\* the supplied axis vectors, end - start, as passed by the caller
FirstVector == VSub(frameArgs.first_end, FrameStart)

SecondVector == VSub(frameArgs.second_end, FrameStart)

SuppliedVector(name) ==
    IF name = frameArgs.first_name THEN FirstVector ELSE SecondVector

ValidNames ==
    /\ frameArgs.first_name # frameArgs.second_name
    /\ frameArgs.axis_to_keep \in {frameArgs.first_name, frameArgs.second_name}

NonParallel == Cross(FirstVector, SecondVector) # Zero3

\* u is a positive multiple of v
SameDirection(u, v) ==
    /\ ~VecHasNaN(u)
    /\ ~VecHasNaN(v)
    /\ Cross(u, v) = Zero3
    /\ Dot(u, v) > 0

\* C4: for every ordered pair of distinct axis names, either axis kept, and any
\* two non-parallel axis vectors, from_markers returns a rotation block whose
\* columns are mutually orthogonal and right-handed (X cross Y is a positive
\* multiple of Z).
C4_OrthogonalRightHanded ==
    (FrameCalled /\ ValidNames /\ NonParallel) =>
        /\ FrameRes.ok
        /\ LET m == FrameRes.value.rt
               x == AxisColumn(m, "X")
               y == AxisColumn(m, "Y")
               z == AxisColumn(m, "Z")
           IN  /\ Dot(x, y) = 0
               /\ Dot(y, z) = 0
               /\ Dot(x, z) = 0
               /\ SameDirection(Cross(x, y), z)

\* a call that exchanges the two axes (Z before Y), keeps the axis that ends up
\* second, on skew (non-orthogonal, non-parallel) axis vectors
C4_Witness ==
    /\ FrameCalled
    /\ frameArgs.first_name = "Z"
    /\ frameArgs.second_name = "Y"
    /\ frameArgs.axis_to_keep = "Z"
    /\ NonParallel
    /\ Dot(FirstVector, SecondVector) # 0
    /\ FrameRes.ok

OtherName ==
    IF frameArgs.axis_to_keep = frameArgs.first_name
    THEN frameArgs.second_name
    ELSE frameArgs.first_name

\* the same call with the other supplied axis kept
FrameSwitched == FrameCall([frameArgs EXCEPT !.axis_to_keep = OtherName])

C6_ConfigurationErrors ==
    FrameCalled =>
        /\ frameArgs.first_name = frameArgs.second_name =>
              (~FrameRes.ok /\ FrameRes.error = "ValueError" /\ FrameRes.value = None)
        /\ (/\ frameArgs.first_name # frameArgs.second_name
            /\ frameArgs.axis_to_keep \notin {frameArgs.first_name, frameArgs.second_name}) =>
              (~FrameRes.ok /\ FrameRes.error = "ValueError" /\ FrameRes.value = None)
        /\ ValidNames => (FrameRes.ok /\ FrameRes.value # None)

\* distinct names, axis_to_keep naming the third axis: the call has raised
C6_Witness ==
    /\ FrameCalled
    /\ frameArgs.first_name = "X"
    /\ frameArgs.second_name = "Y"
    /\ frameArgs.axis_to_keep = "Z"
    /\ ~FrameRes.ok

\* C7: from_markers fails with DegenerateGeometryError instead of returning an
\* RT whenever a vector to be normalized has zero length (an axis with start
\* equal to end, or two parallel axis vectors).
C7_DegenerateGeometryRaises ==
    (FrameCalled /\ ValidNames /\ ~NonParallel) =>
        (~FrameRes.ok /\ FrameRes.error = "DegenerateGeometryError")

\* what the code does there: an RT is returned whose rotation block holds NaN
C7_ReturnsNaN ==
    (FrameCalled /\ ValidNames /\ ~NonParallel) =>
        (FrameRes.ok /\ \E j \in 1..3 : VecHasNaN(Column(FrameRes.value.rt, j)))

----------------------------------------------------------------------------
(* SpecRT: RT objects made, copied, transposed, rendered and used to bind   *)
(* marker positions, with the arrays they share                             *)

MaxObjects == 3

\* quarter-turn angle triples and translations the objects are made from
SampleAngles == {<<0, 1, 3>>}

SampleTranslations == {<<1, 2, 3>>}

\* from_markers arguments: X along +y and Y along -x, seen from FrameStart
SampleFrames ==
    {[origin |-> <<2, 0, 1>>, first_name |-> "X", first_end |-> <<1, 1, 0>>,
      second_name |-> "Y", second_end |-> <<0, 0, 0>>, axis_to_keep |-> "X"]}

\* homogeneous positions that are bound
SamplePositions == {<<3, 1, 2, 1>>}

XYZ == <<"x", "y", "z">>

\* the RT objects a new one may name as parent_rt
Parents == {None} \cup {Some(i) : i \in 1..Len(rts)}

\* mutant of Allocate: the matrix is written into the default argument, and
\* the new RT holds the default argument
AllocateInDefault(m, parent_rt, is_rt_local) ==
    /\ Len(rts) < MaxObjects
    /\ arrays' = [arrays EXCEPT ![DefaultArray] = m]
    /\ rts' = Append(rts, RT(ArrayRef(DefaultArray), parent_rt, is_rt_local))
    /\ last' = Call("new", 0, Len(rts) + 1, None)

\* an RT whose rt is a freshly made array holding m
Allocate(m, parent_rt, is_rt_local) ==
    /\ Len(rts) < MaxObjects
    /\ arrays' = Append(arrays, m)
    /\ rts' = Append(rts, RT(ArrayRef(Len(arrays) + 1), parent_rt, is_rt_local))
    /\ last' = Call("new", 0, Len(rts) + 1, None)

RTInit ==
    /\ arrays = <<Identity4>>
    /\ rts = <<>>
    /\ last = NoCall
    /\ frameArgs = None
    /\ frameResult = None
    /\ ModelIdle
    /\ CallIdle

\* RT(): rt is the default argument itself
RTNewDefault ==
    /\ Len(rts) < MaxObjects
    /\ rts' = Append(rts, RT(ArrayRef(DefaultArray), None, FALSE))
    /\ last' = Call("new", 0, Len(rts) + 1, None)
    /\ UNCHANGED arrays

RTNewFromEuler ==
    \E angles \in SampleAngles, t \in SampleTranslations, parent \in Parents :
        LET r == FromEulerAndTranslation(angles, XYZ, t, parent)
        IN  Allocate(r.rt, r.parent_rt, r.is_rt_local)

RTNewFromMarkers ==
    \E a \in SampleFrames, parent \in Parents :
        LET r == FromMarkers(FrameMarker(a.origin), FrameAxes(a), parent).value
        IN  Allocate(r.rt, r.parent_rt, r.is_rt_local)

RTCopyCall(i) ==
    /\ Len(rts) < MaxObjects
    /\ LET c == RTCopy(arrays, rts[i])
       IN  /\ arrays' = c.arrays
           /\ rts' = Append(rts, c.out)
    /\ last' = Call("copy", i, Len(rts) + 1, None)

RTTransposeCall(i) ==
    /\ Len(rts) < MaxObjects
    /\ LET t == RTTranspose(arrays, rts[i])
       IN  /\ arrays' = t.arrays
           /\ rts' = Append(rts, t.out)
    /\ last' = Call("transpose", i, Len(rts) + 1, None)

\* str(rts[i])
RTStrCall(i) ==
    LET r == RTStrMatrix(arrays, rts, rts[i])
    IN  /\ arrays' = Outlive(r.arrays, Len(arrays))
        /\ last' = Call("str", i, 0, r.rt)
        /\ UNCHANGED rts

\* Marker.from_data binding a position into the frame of rts[i]
RTBindCall(i) ==
    \E position \in SamplePositions :
        LET r == ToParentFrame(arrays, Some(rts[i]), position)
        IN  /\ arrays' = Outlive(r.arrays, Len(arrays))
            /\ last' = Call("bind", i, 0, r.position)
            /\ UNCHANGED rts

RTNext ==
    \/ RTNewDefault /\ UNCHANGED <<frameVars, modelVars, callVars>>
    \/ RTNewFromEuler /\ UNCHANGED <<frameVars, modelVars, callVars>>
    \/ RTNewFromMarkers /\ UNCHANGED <<frameVars, modelVars, callVars>>
    \/ \E i \in 1..Len(rts) : RTCopyCall(i) /\ UNCHANGED <<frameVars, modelVars, callVars>>
    \/ \E i \in 1..Len(rts) : RTTransposeCall(i) /\ UNCHANGED <<frameVars, modelVars, callVars>>
    \/ \E i \in 1..Len(rts) : RTStrCall(i) /\ UNCHANGED <<frameVars, modelVars, callVars>>
    \/ \E i \in 1..Len(rts) : RTBindCall(i) /\ UNCHANGED <<frameVars, modelVars, callVars>>

SpecRT == RTInit /\ [][RTNext]_vars

----------------------------------------------------------------------------
(* SpecTranspose: transpose applied, up to twice in a row, to every rigid   *)
(* transform with a quarter-turn rotation and a translation of Points       *)

QuarterTurns == 0..3

RigidTransforms ==
    {FromEulerAndTranslation(<<a, b, c>>, XYZ, t, None).rt :
        a \in QuarterTurns, b \in QuarterTurns, c \in QuarterTurns, t \in Points}

TransposeInit ==
    /\ arrays \in {<<Identity4, m>> : m \in RigidTransforms}
    /\ rts = <<RT(ArrayRef(2), None, FALSE)>>
    /\ last = NoCall
    /\ frameArgs = None
    /\ frameResult = None
    /\ ModelIdle
    /\ CallIdle

\* the object made last is transposed
TransposeNext == RTTransposeCall(Len(rts)) /\ UNCHANGED <<frameVars, modelVars, callVars>>

SpecTranspose == TransposeInit /\ [][TransposeNext]_vars

----------------------------------------------------------------------------
(* Claims about RT.__str__, RT.transpose and RT.copy *)

\* the matrix an RT object holds
ObjMatrix(i) == ViewMatrix(arrays, rts[i].rt)

\* the inverse of a rigid transform, written out: rotation R^T, translation
\* -R^T t, bottom row 0 0 0 1
RigidInverse(m) ==
    [i \in 1..4 |-> [j \in 1..4 |->
        IF i = 4 THEN (IF j = 4 THEN 1 ELSE 0)
        ELSE IF j = 4
        THEN FNeg(FSum([k \in 1..3 |-> FMul(m[k][i], m[k][4])]))
        ELSE m[j][i]]]

\* C8: rendered with is_local false, the transform decomposed is
\* parent.transpose @ transform, the identity standing in for a missing parent
\* (a parentless global RT is rendered as its own transform); with is_local
\* true the stored transform is rendered as it is.
C8_RenderedTransform ==
    last.op = "str" =>
        LET self == rts[last.self]
            parent == IF self.parent_rt = None THEN Identity4
                      ELSE ObjMatrix(self.parent_rt[1])
        IN  last.value = IF self.is_rt_local
                         THEN ObjMatrix(last.self)
                         ELSE MatMul(RigidInverse(parent), ObjMatrix(last.self))

\* what the code does: a parentless global RT is rendered as the identity
C8_ParentlessRendersIdentity ==
    (/\ last.op = "str"
     /\ ~rts[last.self].is_rt_local
     /\ rts[last.self].parent_rt = None) => last.value = Identity4

\* C9: for every rigid transform T (rotation R, translation t, bottom row
\* 0 0 0 1), T.transpose has rotation R^T, translation -R^T t and bottom row
\* 0 0 0 1, and transposing twice gives back a matrix equal to T.  (Under
\* SpecTranspose every object after the first is the transpose of the one
\* before it.)
C9_TransposeInverts ==
    /\ \A i \in 2..Len(rts) :
          LET t == ObjMatrix(i - 1)
              out == ObjMatrix(i)
          IN  /\ \A r \in 1..3, c \in 1..3 : out[r][c] = t[c][r]
              /\ \A r \in 1..3 :
                    out[r][4] = 0 - (t[1][r] * t[1][4] + t[2][r] * t[2][4] + t[3][r] * t[3][4])
              /\ out[4] = <<0, 0, 0, 1>>
    /\ \A i \in 3..Len(rts) : ObjMatrix(i) = ObjMatrix(i - 2)

\* a transform with a rotation that is not symmetric and a translation with
\* three different components has been transposed twice
C9_Witness ==
    /\ Len(rts) = 3
    /\ last.op = "transpose"
    /\ ObjMatrix(1)[1][4] # ObjMatrix(1)[2][4]
    /\ ObjMatrix(1)[2][4] # ObjMatrix(1)[3][4]
    /\ ObjMatrix(1)[1][4] # 0
    /\ ObjMatrix(2) # ObjMatrix(1)
    /\ \E r \in 1..3, c \in 1..3 : ObjMatrix(1)[r][c] # ObjMatrix(1)[c][r]

\* C10: transpose returns a new RT and never mutates the receiver: over any
\* call (transpose itself, the transposes made while rendering a child and
\* while binding a marker position), every RT object that existed keeps its
\* matrix, its parent reference and its is_rt_local flag, and every array that
\* existed keeps its content.
C10_TransposeLeavesReceiver ==
    [][ /\ \A i \in 1..Len(rts) :
              /\ i \in 1..Len(rts')
              /\ rts'[i] = rts[i]
              /\ ViewMatrix(arrays', rts[i].rt) = ViewMatrix(arrays, rts[i].rt)
        /\ \A a \in 1..Len(arrays) : arrays'[a] = arrays[a]
        /\ last'.op = "transpose" =>
              /\ Len(rts') = Len(rts) + 1
              /\ last'.out = Len(rts')
              /\ rts'[last'.out].rt.base \notin 1..Len(arrays)
      ]_vars

\* a child of a transposed object has been rendered: its parent, itself the
\* result of a transpose, was transposed for it
C10_Witness ==
    /\ last.op = "str"
    /\ ~rts[last.self].is_rt_local
    /\ rts[last.self].parent_rt # None
    /\ rts[rts[last.self].parent_rt[1]].rt.T
    /\ ObjMatrix(rts[last.self].parent_rt[1]) # Identity4

----------------------------------------------------------------------------
(* Spec: a KinematicModelGeneric is built with add_segment, set_rt and      *)
(* add_marker and collapsed against a trial with generate_personalized      *)

MaxCalls == 4

MaxGenerate == 1

SegmentNames == {"PELVIS", "THIGH"}

\* translations and rotations of add_segment: the root segment moves freely,
\* the other one has neither translations nor rotations
DofArgs(name) == IF name = "PELVIS" THEN <<"xyz", "xyz">> ELSE <<"", "">>

Labels == <<"O", "PX", "PY", "M", "LOST">>

\* the frames of each label, in units of the trial; the marker LOST is never
\* seen, and O is hidden in the second frame
FramesOf(u) ==
    << << <<u, u, 0, 1>>, <<NaN, NaN, NaN, 1>> >>,
       << <<3 * u, u, 0, 1>>, <<3 * u, u, 0, 1>> >>,
       << <<u, 2 * u, 0, 1>>, <<u, 4 * u, 0, 1>> >>,
       << <<2 * u, 3 * u, u, 1>>, <<2 * u, 3 * u, 3 * u, 1>> >>,
       << <<NaN, NaN, NaN, 1>>, <<NaN, NaN, NaN, 1>> >> >>

\* the same recording in metres and in millimetres
Trials ==
    { [labels |-> Labels, units |-> <<"m">>, points |-> FramesOf(1)],
      [labels |-> Labels, units |-> <<"mm">>, points |-> FramesOf(1000)] }

\* arguments of set_rt: a frame that binds, one with the same axis name
\* twice and one whose origin is a label the trial does not have
RtArgs ==
    { [origin_markers |-> Str("O"),
       first_axis_name |-> "Y", first_axis_markers |-> <<Str("O"), Str("PX")>>,
       second_axis_name |-> "Z", second_axis_markers |-> <<Str("O"), Str("PY")>>,
       axis_to_keep |-> "Y"],
      [origin_markers |-> Str("O"),
       first_axis_name |-> "X", first_axis_markers |-> <<Str("O"), Str("PX")>>,
       second_axis_name |-> "X", second_axis_markers |-> <<Str("O"), Str("PY")>>,
       axis_to_keep |-> "X"],
      [origin_markers |-> Str("GONE"),
       first_axis_name |-> "X", first_axis_markers |-> <<Str("O"), Str("PX")>>,
       second_axis_name |-> "Y", second_axis_markers |-> <<Str("O"), Str("PY")>>,
       axis_to_keep |-> "X"] }

\* arguments of add_marker: a recorded marker, a virtual one halfway between
\* two recorded ones, and one the trial never saw
MarkerArgs ==
    { [name |-> "M", from_markers |-> None, is_technical |-> TRUE, is_anatomical |-> FALSE],
      [name |-> "V", from_markers |-> Some(Tuple(<<"O", "PX">>)),
       is_technical |-> FALSE, is_anatomical |-> TRUE],
      [name |-> "LOST", from_markers |-> None,
       is_technical |-> TRUE, is_anatomical |-> FALSE] }

Init ==
    /\ segments = <<>>
    /\ trial \in Trials
    /\ file = NoFile
    /\ outcome = NoOutcome
    /\ model = None
    /\ calls = 0
    /\ generated = 0
    /\ frameArgs = None
    /\ frameResult = None
    /\ CallIdle
    /\ arrays = <<Identity4>>
    /\ rts = <<>>
    /\ last = NoCall

\* a call that builds the generic model: what it returned and the dict it left
Built(op, r) ==
    /\ calls < MaxCalls
    /\ calls' = calls + 1
    /\ segments' = r.segments
    /\ outcome' = [op |-> op, result |-> r.result]
    /\ UNCHANGED <<trial, file, model, generated, frameVars, rtVars, callVars>>

AddSegment ==
    \E name \in SegmentNames, parent_name \in {""} \cup SegmentNames :
        Built("add_segment",
              ModelAddSegment(segments, name, parent_name,
                              DofArgs(name)[1], DofArgs(name)[2]))

\* set_rt and add_marker may name a segment that was not added yet
SetRt ==
    \E segment_name \in SegmentNames, a \in RtArgs :
        Built("set_rt",
              ModelSetRt(segments, segment_name, a.origin_markers, a.first_axis_name,
                         a.first_axis_markers, a.second_axis_name,
                         a.second_axis_markers, a.axis_to_keep))

AddMarker ==
    \E segment \in SegmentNames, a \in MarkerArgs :
        Built("add_marker",
              ModelAddMarker(segments, segment, a.name, a.from_markers,
                             a.is_technical, a.is_anatomical))

\* a call of generate_personalized: what it raised, built and wrote, and the
\* trial it leaves; self.segments is only iterated and read
Generated(g, c3d) ==
    /\ generated < MaxGenerate
    /\ generated' = generated + 1
    /\ outcome' = [op |-> "generate_personalized", result |-> g.result]
    /\ model' = g.model
    /\ file' = g.file
    /\ trial' = c3d
    /\ UNCHANGED <<segments, calls, frameVars, rtVars, callVars>>

Generate ==
    Generated(GeneratePersonalized(segments, trial, file),
              TrialAfter(trial, Concat([i \in 1..Len(segments) |-> FromMarkersOf(segments[i])])))

Next ==
    \/ AddSegment
    \/ SetRt
    \/ AddMarker
    \/ Generate

Spec == Init /\ [][Next]_vars

----------------------------------------------------------------------------
(* Claims about generate_personalized, checked under Spec *)

\* the last call was generate_personalized: segments is the model it read
GenerateDone == outcome.op = "generate_personalized"

GenerateOk == GenerateDone /\ outcome.result.ok

\* the segments of the KinematicChain that was built
Chain == model[1]

\* segment i names a parent that no segment before it has
BadParentAt(segs, i) ==
    /\ segs[i].parent_name # ""
    /\ ~\E k \in 1..(i - 1) : segs[k].name = segs[i].parent_name

\* the trial has the label and, for each coordinate, a frame where it is seen
Seen(label) ==
    \E k \in 1..Len(trial.labels) :
        /\ trial.labels[k] = label
        /\ \A r \in 1..3 : \E f \in 1..Len(trial.points[k]) : trial.points[k][f][r] # NaN

Resolves(from_markers) ==
    \A k \in 1..Len(AsTuple(from_markers)) : Seen(AsTuple(from_markers)[k])

\* the frame of a generic segment can be made from the trial
RtBinds(rt) ==
    \/ rt = None
    \/ /\ Resolves(rt[1].origin.from_markers)
       /\ \A a \in 1..2 : /\ Resolves(rt[1].axes[a].start_point.from_markers)
                          /\ Resolves(rt[1].axes[a].end_point.from_markers)
       /\ rt[1].axes[1].name # rt[1].axes[2].name
       /\ rt[1].axes[3] \in {rt[1].axes[1].name, rt[1].axes[2].name}

Binds(s) ==
    /\ RtBinds(s.rt)
    /\ \A k \in 1..Len(s.markers) : Resolves(s.markers[k].from_markers)

UnknownParent == Raise("ValueError", "parent_name is not in list")

\* C1: generate_personalized fails when a segment names a parent that is not
\* among the segments before it (itself and later segments included), with
\* the unknown-parent error when that segment is the first thing to fail;
\* segments whose parents all precede them, and that bind, assemble; and in
\* every chain built each non-empty parent_name is the name of an earlier
\* segment of the chain.
C1_UnknownParentFails ==
    GenerateDone =>
        /\ (\E i \in 1..Len(segments) : BadParentAt(segments, i)) => ~outcome.result.ok
        /\ \A i \in 1..Len(segments) :
              ( /\ BadParentAt(segments, i)
                /\ \A k \in 1..(i - 1) : ~BadParentAt(segments, k) /\ Binds(segments[k]) )
              => outcome.result = UnknownParent
        /\ (\A i \in 1..Len(segments) : ~BadParentAt(segments, i) /\ Binds(segments[i]))
              => outcome.result.ok
        /\ outcome.result.ok =>
              /\ model # None
              /\ \A i \in 1..Len(Chain) : ~BadParentAt(Chain, i)

\* the first of two segments names the second, declared later, as its parent
C1_Witness ==
    /\ GenerateDone
    /\ Len(segments) = 2
    /\ segments[1].parent_name = segments[2].name
    /\ outcome.result = UnknownParent

Count(text, kw) == Len(SelectSeq(text, LAMBDA l : l.kw = kw))

AllMarkers(segs) == Concat([i \in 1..Len(segs) |-> segs[i].markers])

\* C2: a generate_personalized that raises leaves the file as it was, neither
\* opened nor written; one that returns has opened and written the file
\* once, with every segment and every marker of the model in it.
C2_AllOrNothing ==
    [][ generated' = generated + 1 =>
            IF outcome'.result.ok
            THEN /\ file'.opened = file.opened + 1
                 /\ file'.written = file.written + 1
                 /\ Count(file'.text, "endsegment") = Len(segments)
                 /\ Count(file'.text, "endmarker") = Len(AllMarkers(segments))
            ELSE file' = file ]_vars

\* the last marker of the last of two segments is the only thing that fails
C2_Witness ==
    /\ GenerateDone
    /\ ~outcome.result.ok
    /\ file = NoFile
    /\ Len(segments) = 2
    /\ \A i \in 1..2 : ~BadParentAt(segments, i)
    /\ Binds(segments[1])
    /\ RtBinds(segments[2].rt)
    /\ Len(segments[2].markers) = 2
    /\ Resolves(segments[2].markers[1].from_markers)
    /\ ~Resolves(segments[2].markers[2].from_markers)

Names(xs) == [k \in 1..Len(xs) |-> xs[k].name]

\* the segment and marker lines of a text, in order
Headers(text) ==
    LET h == SelectSeq(text, LAMBDA l : l.kw \in {"segment", "marker"})
    IN  [k \in 1..Len(h) |-> <<h[k].kw, h[k].name>>]

\* each segment followed by its markers, as they were declared
DeclaredHeaders(segs) ==
    Concat([i \in 1..Len(segs) |->
               <<<<"segment", segs[i].name>>>>
               \o [k \in 1..Len(segs[i].markers) |-> <<"marker", segs[i].markers[k].name>>]])

\* C3: the chain has the segments in the order of segments (the order of the
\* first add_segment of each name), each with its markers in the order of
\* add_marker, and the text has the segment blocks in that order, each
\* followed directly by its marker blocks in that order.
C3_OrderPreserved ==
    GenerateOk =>
        /\ Names(Chain) = Names(segments)
        /\ \A i \in 1..Len(segments) : Names(Chain[i].markers) = Names(segments[i].markers)
        /\ Headers(file.text) = DeclaredHeaders(segments)
        /\ \A j \in 1..Len(file.text) :
              file.text[j].kw = "marker" =>
                  j > 1 /\ file.text[j - 1].kw \in {"endsegment", "endmarker"}

\* two segments, one of them with two different markers
C3_Witness ==
    /\ GenerateOk
    /\ Len(segments) = 2
    /\ \E i \in 1..2 :
          /\ Len(segments[i].markers) = 2
          /\ segments[i].markers[1].name # segments[i].markers[2].name

----------------------------------------------------------------------------
(* SpecMarker: MarkerGeneric.to_marker applied to one marker set of a trial *)
(* of two labels, each frame of a label a recorded point or a frame where   *)
(* the marker was not seen (x, y and z are NaN together in a c3d)           *)

MaxFrames == 2

\* recorded points; every mean of the model is a whole number of them
SamplePoints == {<<0, 0, 0, 1>>, <<12000, 24000, 36000, 1>>}

Unseen == <<NaN, NaN, NaN, 1>>

MarkerLabels == <<"A", "B">>

\* the frames of one label
Recordings == [1..MaxFrames -> SamplePoints \cup {Unseen}]

MarkerTrials ==
    [labels : {MarkerLabels}, units : {<<"m">>, <<"mm">>},
     points : [1..Len(MarkerLabels) -> Recordings]]

\* one name as a str, one and two names as a tuple, and a label the trial
\* does not have
MarkerSets == {Str("A"), Tuple(<<"B">>), Tuple(<<"A", "B">>), Str("GONE")}

\* no parent, or a parent that turns and shifts
MarkerParents ==
    {None, Some(FromEulerAndTranslation(<<0, 1, 3>>, XYZ, <<1000, 2000, 3000>>, None))}

MarkerInit ==
    /\ callArgs \in [c3d : MarkerTrials, from_markers : MarkerSets, parent_rt : MarkerParents]
    /\ callResult = None
    /\ frameArgs = None
    /\ frameResult = None
    /\ arrays = <<Identity4>>
    /\ rts = <<>>
    /\ last = NoCall
    /\ ModelIdle

\* MarkerGeneric(name, from_markers, parent_name).to_marker(c3d, parent_rt)
MarkerCall(a) ==
    ToMarker(MarkerGeneric("V", a.from_markers, "PELVIS", TRUE, FALSE), a.c3d, a.parent_rt)

MarkerToMarker ==
    /\ callResult = None
    /\ callResult' = Some(MarkerCall(callArgs))
    /\ UNCHANGED <<callArgs, frameVars, rtVars, modelVars>>

MarkerNext == MarkerToMarker

SpecMarker == MarkerInit /\ [][MarkerNext]_vars

----------------------------------------------------------------------------
(* Claims about Marker.from_data, checked under SpecMarker *)

MarkerCalled == callResult # None

MarkerRes == callResult[1]

\* the names asked for
Listed == AsTuple(callArgs.from_markers)

Known(name) == \E k \in 1..Len(callArgs.c3d.labels) : callArgs.c3d.labels[k] = name

\* the frames of a label of the trial
FramesNamed(name) ==
    callArgs.c3d.points[CHOOSE k \in 1..Len(callArgs.c3d.labels) :
                            callArgs.c3d.labels[k] = name]

\* the frames where the marker is seen
SeenIn(name) == {f \in 1..Len(FramesNamed(name)) : FramesNamed(name)[f][1] # NaN}

AllKnown == \A k \in 1..Len(Listed) : Known(Listed[k])

NotPresent == Raise("RuntimeError", "The markers are not present in the c3d")

Finite(position) == \A r \in 1..3 : position[r] # NaN

\* C11 as stated: a set never seen in any frame fails, and a set with at
\* least one sample, of whichever of its names, resolves to a finite position.
C11_AnySampleResolves ==
    (MarkerCalled /\ AllKnown) =>
        /\ (\A k \in 1..Len(Listed) : SeenIn(Listed[k]) = {}) => MarkerRes = NotPresent
        /\ (\E k \in 1..Len(Listed) : SeenIn(Listed[k]) # {})
              => MarkerRes.ok /\ Finite(MarkerRes.value.position)

\* C11, amended: a set never seen in any frame fails with the missing-marker
\* error, and a set each of whose names has at least one sample resolves to
\* a finite position.
C11_EveryNameSampledResolves ==
    (MarkerCalled /\ AllKnown) =>
        /\ (\A k \in 1..Len(Listed) : SeenIn(Listed[k]) = {}) => MarkerRes = NotPresent
        /\ (\A k \in 1..Len(Listed) : SeenIn(Listed[k]) # {})
              => MarkerRes.ok /\ Finite(MarkerRes.value.position)

\* two names, seen in different numbers of frames, bound into a parent frame
C11_Witness ==
    /\ MarkerCalled
    /\ Len(Listed) = 2
    /\ AllKnown
    /\ Cardinality(SeenIn(Listed[1])) = 1
    /\ Cardinality(SeenIn(Listed[2])) = 2
    /\ callArgs.parent_rt # None
    /\ MarkerRes.ok

RECURSIVE Sum(_)
Sum(xs) == IF xs = <<>> THEN 0 ELSE xs[1] + Sum(Tail(xs))

RECURSIVE Product(_)
Product(xs) == IF xs = <<>> THEN 1 ELSE xs[1] * Product(Tail(xs))

\* what one recorded unit is in metres, as a divisor
UnitsPerMetre == IF callArgs.c3d.units[1] = "mm" THEN 1000 ELSE 1

\* the number of frames where name k is seen
SeenCount(k) == Cardinality(SeenIn(Listed[k]))

\* the sum of coordinate r of name k over the frames where it is seen
SeenSum(k, r) ==
    Sum([f \in 1..Len(FramesNamed(Listed[k])) |->
            IF f \in SeenIn(Listed[k]) THEN FramesNamed(Listed[k])[f][r] ELSE 0])

\* the product of the counts of the names other than k (of all for k = 0)
OtherCounts(k) == Product([j \in 1..Len(Listed) |-> IF j = k THEN 1 ELSE SeenCount(j)])

\* C12: to_marker fails with the missing-marker error when one of the listed
\* names is never seen, whatever the others; otherwise the global position is
\* the mean over the names of each name's mean over the frames where it is
\* seen: position * units * names * (product of the counts) is the sum over
\* the names of the name's sum times the counts of the other names.
C12_MeanOfMeans ==
    (MarkerCalled /\ AllKnown) =>
        /\ (\E k \in 1..Len(Listed) : SeenCount(k) = 0) => MarkerRes = NotPresent
        /\ ((\A k \in 1..Len(Listed) : SeenCount(k) > 0) /\ callArgs.parent_rt = None) =>
              /\ MarkerRes.ok
              /\ \A r \in 1..3 :
                    MarkerRes.value.position[r] * UnitsPerMetre * Len(Listed) * OtherCounts(0)
                    = Sum([k \in 1..Len(Listed) |-> SeenSum(k, r) * OtherCounts(k)])

\* two names seen in different numbers of frames, at different points, so
\* that the mean of the means is not the mean of all the samples
C12_Witness ==
    /\ MarkerCalled
    /\ Len(Listed) = 2
    /\ AllKnown
    /\ callArgs.parent_rt = None
    /\ SeenCount(1) = 2
    /\ SeenCount(2) = 1
    /\ SeenSum(1, 1) = 0
    /\ SeenSum(2, 1) # 0
    /\ MarkerRes.ok

\* the same call on the same recorded values tagged as metres
MarkerCallInMetres == MarkerCall([callArgs EXCEPT !.c3d.units = <<"m">>])

----------------------------------------------------------------------------
(* Claims about the segments generate_personalized builds, checked under Spec *)

\* the mean position of a marker set in the trial, in the global frame
GlobalMean(from_markers) ==
    ToMarker(MarkerGeneric("", from_markers, "", TRUE, FALSE), trial, None).value.position

\* the segment of the chain that segment i names as parent
ParentInChain(i) ==
    Chain[CHOOSE k \in 1..Len(Chain) : Chain[k].name = segments[i].parent_name]

\* the frame of segment i of the chain is the one its recipe describes: at
\* the mean of the origin markers, rigid, the kept axis along its markers,
\* with the frame of the parent segment as parent reference
FrameFromRecipe(i) ==
    LET recipe == segments[i].rt[1]
        kept == IF recipe.axes[1].name = recipe.axes[3] THEN recipe.axes[1]
                ELSE recipe.axes[2]
        frame == Chain[i].rt[1]
    IN  /\ Column(frame.rt, 4) = GlobalMean(recipe.origin.from_markers)
        /\ MatMul(frame.rt, RigidInverse(frame.rt)) = Identity4
        /\ SameDirection(AxisColumn(frame.rt, kept.name),
                         VSub(GlobalMean(kept.end_point.from_markers),
                              GlobalMean(kept.start_point.from_markers)))
        /\ frame.parent_rt = IF segments[i].parent_name = "" THEN None
                             ELSE ParentInChain(i).rt
        /\ ~frame.is_rt_local

\* marker k of segment i of the chain, carried by the frame of the segment,
\* is where the trial has it
MarkerInFrame(i, k) ==
    LET local == Chain[i].markers[k].position
        global == GlobalMean(segments[i].markers[k].from_markers)
    IN  MatVec(Chain[i].rt[1].rt, <<local[1], local[2], local[3], 1>>)
            = <<global[1], global[2], global[3], 1>>

\* C14: in the chain a segment without recipe has the identity frame and one
\* with a recipe the frame built from its markers with the frame of the
\* parent segment as parent; each marker is the inverse of the frame of its
\* segment applied to its global mean position; mass, center of mass and
\* inertia are zero.
C14_SegmentsBound ==
    GenerateOk =>
        \A i \in 1..Len(segments) :
            /\ segments[i].rt = None => Chain[i].rt = Some(RT(Identity4, None, FALSE))
            /\ segments[i].rt # None => FrameFromRecipe(i)
            /\ \A k \in 1..Len(segments[i].markers) : MarkerInFrame(i, k)
            /\ Chain[i].mass = 0
            /\ Chain[i].center_of_mass = <<0, 0, 0>>
            /\ Chain[i].inertia_xxyyzz = <<0, 0, 0>>

\* a segment with a recipe, a parent and a marker that its frame moves, and
\* a segment without recipe
C14_Witness ==
    /\ GenerateOk
    /\ Len(segments) = 2
    /\ segments[1].rt = None
    /\ segments[2].rt # None
    /\ segments[2].parent_name = segments[1].name
    /\ Len(segments[2].markers) = 1
    /\ Chain[2].markers[1].position # GlobalMean(segments[2].markers[1].from_markers)

MaxMass == 2

MaxStature == 1

\* the biorbd models: marker names in two orders and without toe, and
\* model.markers(q_zero) with the body laid along a direction of norm 1 or 3,
\* each marker some steps from the top of the head
RestPoses ==
    LET Depth == [TOP_HEAD |-> 0, SHOULDER |-> 1, ELBOW |-> 2, WRIST |-> 3, FINGER |-> 4, PELVIS |-> 4, KNEE |-> 6, ANKLE |-> 7, TOE |-> 8]
        Orders == { <<"TOP_HEAD", "SHOULDER", "ELBOW", "WRIST", "FINGER", "PELVIS", "KNEE", "ANKLE", "TOE">>,
                    <<"TOE", "ANKLE", "KNEE", "PELVIS", "FINGER", "WRIST", "ELBOW", "SHOULDER", "TOP_HEAD">>,
                    <<"TOP_HEAD", "SHOULDER", "ELBOW", "WRIST", "FINGER", "PELVIS", "KNEE", "ANKLE">> }
    IN  { [names |-> names, markers |-> [i \in 1..Len(names) |-> [k \in 1..3 |-> Depth[names[i]] * step * direction[k]]]] :
             names \in Orders, direction \in {<<0, 0, 1>>, <<1, 2, 2>>}, step \in 1..MaxStature }

\* DeLeva(sex, mass, model) and the arguments of one call of a method
DeLevaInit ==
    /\ callArgs \in [self : {DeLeva(sex, mass, biorbd_model) : sex \in {"male", "female", "child"}, mass \in 1..MaxMass, biorbd_model \in RestPoses},
                     segment : DOMAIN DeLevaTable.male \cup {"NECK"},
                     inverse_proximal : BOOLEAN]
    /\ callResult = None
    /\ frameArgs = None
    /\ frameResult = None
    /\ arrays = <<Identity4>>
    /\ rts = <<>>
    /\ last = NoCall
    /\ ModelIdle

DeLevaSegmentMass ==
    /\ callResult = None
    /\ callResult' = Some([op |-> "segment_mass", result |-> SegmentMass(callArgs.self, callArgs.segment)])
    /\ UNCHANGED <<callArgs, frameVars, rtVars, modelVars>>

DeLevaSegmentLength ==
    /\ callResult = None
    /\ callResult' = Some([op |-> "segment_length", result |-> SegmentLength(callArgs.self, callArgs.segment)])
    /\ UNCHANGED <<callArgs, frameVars, rtVars, modelVars>>

DeLevaSegmentCenterOfMass ==
    /\ callResult = None
    /\ callResult' = Some([op |-> "segment_center_of_mass", result |-> SegmentCenterOfMass(callArgs.self, callArgs.segment, callArgs.inverse_proximal)])
    /\ UNCHANGED <<callArgs, frameVars, rtVars, modelVars>>

DeLevaSegmentMomentOfInertia ==
    /\ callResult = None
    /\ callResult' = Some([op |-> "segment_moment_of_inertia", result |-> SegmentMomentOfInertia(callArgs.self, callArgs.segment)])
    /\ UNCHANGED <<callArgs, frameVars, rtVars, modelVars>>

DeLevaNext ==
    \/ DeLevaSegmentMass
    \/ DeLevaSegmentLength
    \/ DeLevaSegmentCenterOfMass
    \/ DeLevaSegmentMomentOfInertia

SpecDeLeva == DeLevaInit /\ [][DeLevaNext]_vars

\* ---------------------------------------------------------------------------
\* Claims C16 to C18
\* ---------------------------------------------------------------------------

DeLevaCalled(op) == callResult # None /\ callResult[1].op = op

DeLevaRes == callResult[1].result

\* DeLeva(sex, mass, model) of the call
Self == callArgs.self

\* the segments of the table, in the order the table lists them
TableSegments == <<"HEAD", "TRUNK", "UPPER_ARM", "LOWER_ARM", "HAND", "THIGH", "SHANK", "FOOT">>

\* the sex and the segment of the call are keys of the table
InTable == Self.sex \in DOMAIN DeLevaTable /\ callArgs.segment \in DOMAIN DeLevaTable[Self.sex]

Row == DeLevaTable[Self.sex][callArgs.segment]

\* the model has the two markers of the row
HasEnds == \A e \in 1..2 : \E i \in 1..Len(Self.model.names) : Self.model.names[i] = Row.marker_names[e]

End(e) == Self.model.markers[CHOOSE i \in 1..Len(Self.model.names) : Self.model.names[i] = Row.marker_names[e]]

\* the same model with every marker k times as far from the origin
Stretched(biorbd_model, k) == [biorbd_model EXCEPT !.markers = [i \in 1..Len(biorbd_model.markers) |-> [c \in 1..3 |-> k * biorbd_model.markers[i][c]]]]

\* k times a moment
WideTimes(w, k) == [hi |-> w.hi * k + (w.lo * k) \div Fraction, lo |-> (w.lo * k) % Fraction]

\* C16: for every sex and segment of the table (and a model that has the
\* two markers of the segment), segment_moment_of_inertia returns
\* mass_fraction * total_mass * (segment_length * r_i)^2 for the radii
\* r_1 (sagittal), r_2 (transverse), r_3 (longitudinal) in this order;
\* segment_mass is total_mass times the mass for a total mass of one, and the
\* moments of a model k times as long are k^2 times as large.
C16_MomentsFromTable ==
    /\ DeLevaCalled("segment_moment_of_inertia") /\ InTable /\ HasEnds =>
          /\ DeLevaRes.ok
          /\ Len(DeLevaRes.value) = 3
          /\ \A i \in 1..3 :
                DeLevaRes.value[i] =
                    Wide(Row.mass * Self.mass,
                         (SegmentLength(Self, callArgs.segment).value * Row.radii[i])
                         * (SegmentLength(Self, callArgs.segment).value * Row.radii[i]))
          /\ \A k \in 1..2 : \A i \in 1..3 :
                SegmentMomentOfInertia(DeLeva(Self.sex, Self.mass, Stretched(Self.model, k)), callArgs.segment).value[i]
                    = WideTimes(DeLevaRes.value[i], k * k)
    /\ DeLevaCalled("segment_mass") /\ InTable =>
          /\ DeLevaRes = Return(Row.mass * Self.mass)
          /\ DeLevaRes.value = Self.mass * SegmentMass(DeLeva(Self.sex, 1, Self.model), callArgs.segment).value
    /\ DeLevaCalled("segment_length") /\ InTable /\ HasEnds =>
          /\ DeLevaRes.ok
          /\ DeLevaRes.value * DeLevaRes.value = Dot(VSub(End(2), End(1)), VSub(End(2), End(1)))

\* the moments of a segment longer than one step, of a subject heavier than
\* one unit, with three different radii
C16_Witness ==
    /\ DeLevaCalled("segment_moment_of_inertia")
    /\ InTable
    /\ DeLevaRes.ok
    /\ Self.mass > 1
    /\ SegmentLength(Self, callArgs.segment).value > 1
    /\ DeLevaRes.value[1] # DeLevaRes.value[2]
    /\ DeLevaRes.value[2] # DeLevaRes.value[3]
    /\ DeLevaRes.value[1] # DeLevaRes.value[3]

\* C17: for every segment and sex of the table and every model with the two
\* markers, the offset from the proximal marker added to the proximal marker
\* and the offset from the distal marker added to the distal marker are the
\* same point (positions in ten-thousandths).
C17_SamePoint ==
    DeLevaCalled("segment_center_of_mass") /\ InTable /\ HasEnds =>
        /\ DeLevaRes.ok
        /\ SegmentCenterOfMass(Self, callArgs.segment, ~callArgs.inverse_proximal).ok
        /\ \A k \in 1..3 :
              IF callArgs.inverse_proximal
              THEN Fraction * End(2)[k] + DeLevaRes.value[k]
                     = Fraction * End(1)[k] + SegmentCenterOfMass(Self, callArgs.segment, FALSE).value[k]
              ELSE Fraction * End(1)[k] + DeLevaRes.value[k]
                     = Fraction * End(2)[k] + SegmentCenterOfMass(Self, callArgs.segment, TRUE).value[k]

\* the offset from the distal marker of a segment whose ends differ
C17_Witness ==
    /\ DeLevaCalled("segment_center_of_mass")
    /\ InTable
    /\ DeLevaRes.ok
    /\ callArgs.inverse_proximal
    /\ End(1) # End(2)
    /\ DeLevaRes.value # <<0, 0, 0>>

\* the table of a sex has the eight segments and no other
EightSegments(sex) == DOMAIN DeLevaTable[sex] = {TableSegments[i] : i \in 1..Len(TableSegments)} /\ Len(TableSegments) = 8

\* C18: for both sexes the mass fractions of the eight segments of the table
\* sum to exactly 1, the masses segment_mass returns for them sum to the total
\* mass, and every center-of-mass fraction is strictly between 0 and 1.
C18_FractionsSumToOne ==
    DeLevaCalled("segment_mass") /\ Self.sex \in {"male", "female"} =>
        /\ EightSegments(Self.sex)
        /\ Sum([i \in 1..Len(TableSegments) |-> DeLevaTable[Self.sex][TableSegments[i]].mass]) = Fraction
        /\ \A i \in 1..Len(TableSegments) : SegmentMass(Self, TableSegments[i]).ok
        /\ Sum([i \in 1..Len(TableSegments) |-> SegmentMass(Self, TableSegments[i]).value]) = Fraction * Self.mass
        /\ \A i \in 1..Len(TableSegments) :
              /\ DeLevaTable[Self.sex][TableSegments[i]].center_of_mass > 0
              /\ DeLevaTable[Self.sex][TableSegments[i]].center_of_mass < Fraction

\* the mass of a limb segment of a subject heavier than one unit
C18_Witness ==
    /\ DeLevaCalled("segment_mass")
    /\ Self.sex = "female"
    /\ callArgs.segment = "FOOT"
    /\ Self.mass > 1
    /\ DeLevaRes = Return(BothSides(129) * Self.mass)

\* ---------------------------------------------------------------------------
\* Claim C19
\* ---------------------------------------------------------------------------

\* the place of a declared name in the resolution order, 0 when not declared
PlaceOf(name) == IF \E i \in 1..Len(segments) : segments[i].name = name THEN CHOOSE i \in 1..Len(segments) : segments[i].name = name ELSE 0

\* a segment as add_segment declares it: the parent and the specifiers
\* given, no marker and no recipe
Fresh(s, name, parent_name) ==
    /\ s.name = name
    /\ s.parent_name = parent_name
    /\ s.translations = DofArgs(name)[1]
    /\ s.rotations = DofArgs(name)[2]
    /\ s.markers = <<>>
    /\ s.rt = None

\* some segment names as parent a segment declared after it
EarlyWithLaterParent == \E i \in 1..Len(segments) : \E j \in (i + 1)..Len(segments) : segments[i].parent_name = segments[j].name

\* C19: add_segment with a name already declared leaves every other segment
\* and the order as they were and puts at the place of the first declaration a
\* segment with the parent and the specifiers given, without markers and
\* without recipe; a new name is added at the end; and generation fails
\* whenever a segment names as parent a segment declared after it.
C19_RedeclareReplacesInPlace ==
    [][ /\ (calls' = calls + 1 /\ outcome'.op = "add_segment") =>
              \E name \in SegmentNames, parent_name \in {""} \cup SegmentNames :
                  IF PlaceOf(name) # 0
                  THEN /\ Len(segments') = Len(segments)
                       /\ \A k \in 1..Len(segments) : k # PlaceOf(name) => segments'[k] = segments[k]
                       /\ Fresh(segments'[PlaceOf(name)], name, parent_name)
                  ELSE /\ Len(segments') = Len(segments) + 1
                       /\ \A k \in 1..Len(segments) : segments'[k] = segments[k]
                       /\ Fresh(segments'[Len(segments')], name, parent_name)
        /\ (generated' = generated + 1 /\ EarlyWithLaterParent) => ~outcome'.result.ok ]_vars

\* the first segment was declared again, after the second one had its marker,
\* with the second one as parent
C19_Witness ==
    /\ outcome.op = "add_segment"
    /\ Len(segments) = 2
    /\ Len(segments[2].markers) > 0
    /\ segments[1].parent_name = segments[2].name
    /\ segments[1].markers = <<>>

\* ---------------------------------------------------------------------------
\* Claim C20
\* ---------------------------------------------------------------------------

\* rts[i] was made by RT() without a matrix: it holds the default argument;
\* from_markers, from_euler_and_translation and copy make an array of their own
DefaultConstructed(i) == rts[i].rt.base = DefaultArray

\* C20: the default argument of RT.__init__ is one array, every RT made
\* without a matrix holds it, and after any sequence of constructions, copies,
\* transposes, renderings and marker bindings it is the identity, so that every
\* such RT is the identity transform.
C20_DefaultStaysIdentity ==
    /\ arrays[DefaultArray] = Identity4
    /\ \A i \in 1..Len(rts) :
          DefaultConstructed(i) =>
              /\ rts[i].rt = ArrayRef(DefaultArray)
              /\ ObjMatrix(i) = Identity4

\* two RTs made without a matrix, one of them transposed
C20_Witness ==
    /\ last.op = "transpose"
    /\ DefaultConstructed(last.self)
    /\ \E i \in 1..Len(rts) : i # last.self /\ DefaultConstructed(i)
    /\ ~DefaultConstructed(last.out)

\* ---------------------------------------------------------------------------
\* Claim C21
\* ---------------------------------------------------------------------------

\* every segment but the one at place i is as it was
OthersKept(i) == Len(segments') = Len(segments) /\ \A k \in 1..Len(segments) : k # i => segments'[k] = segments[k]

\* the segment at place i got one more marker, owned by it, and nothing else
MarkerAddedAt(i) ==
    /\ OthersKept(i)
    /\ Len(segments'[i].markers) = Len(segments[i].markers) + 1
    /\ SubSeq(segments'[i].markers, 1, Len(segments[i].markers)) = segments[i].markers
    /\ segments'[i].markers[Len(segments'[i].markers)].parent_name = segments[i].name
    /\ [segments'[i] EXCEPT !.markers = segments[i].markers] = segments[i]

\* the segment at place i got a recipe, and nothing else
RecipeSetAt(i) ==
    /\ OthersKept(i)
    /\ segments'[i].rt # None
    /\ [segments'[i] EXCEPT !.rt = segments[i].rt] = segments[i]

\* the call failed on the name and left the dict as it was
KeyErrorOn(name) == outcome'.result = Raise("KeyError", name) /\ segments' = segments

\* C21: in every chain generated the segment names are pairwise distinct and
\* every marker of a segment has that segment's name as parent_name; add_marker
\* and set_rt on a declared segment change that segment only, and on a name
\* that was never declared they raise KeyError and leave the model unchanged.
C21_MarkersOwnedAndUndeclaredRejected ==
    [][ /\ GenerateOk' =>
              /\ \A i, j \in 1..Len(Chain') : Chain'[i].name = Chain'[j].name => i = j
              /\ \A i \in 1..Len(Chain') : \A k \in 1..Len(Chain'[i].markers) :
                    Chain'[i].markers[k].parent_name = Chain'[i].name
        /\ (calls' = calls + 1 /\ outcome'.op = "add_marker") =>
              \E name \in SegmentNames :
                  IF PlaceOf(name) # 0
                  THEN outcome'.result.ok /\ MarkerAddedAt(PlaceOf(name))
                  ELSE KeyErrorOn(name)
        /\ (calls' = calls + 1 /\ outcome'.op = "set_rt") =>
              \E name \in SegmentNames :
                  IF PlaceOf(name) # 0
                  THEN outcome'.result.ok /\ RecipeSetAt(PlaceOf(name))
                  ELSE KeyErrorOn(name) ]_vars

\* a chain of two segments, each with a marker of its own
C21_Witness ==
    /\ GenerateOk
    /\ Len(Chain) = 2
    /\ Len(Chain[1].markers) > 0
    /\ Len(Chain[2].markers) > 0
    /\ Chain[1].markers[1].parent_name # Chain[2].markers[1].parent_name

====
